---- MODULE Spec2Model ----
(***************************************************************************)
(* PNGHeaderScanner (src/src/main.rs): a header classifier (parse_one), a  *)
(* repair step for indexed-colour images (fix_image) and a directory walk  *)
(* that dispatches between them (handle_one_file, main).                   *)
(*                                                                         *)
(* Two specifications:                                                     *)
(*   ParseSpec  one call of parse_one on a file drawn from Files;          *)
(*   Spec       a whole run of main over a directory tree.                 *)
(***************************************************************************)
EXTENDS Integers, Sequences, FiniteSets

VARIABLES
    pc,                       \* position of the single thread of control
    remaining,                \* entries the directory iterator has yet to yield
    index,                    \* entries yielded so far
    cur,                      \* the entry the loop body is working on
    disk,                     \* the file of the current entry as stored on disk
    result,                   \* what parse_one returned for the current entry
    num_fixed,                \* main's counter
    image_size_before,        \* fix_image's local
    image_before_optimizing,  \* fix_image's local: the decoded pixel buffer
    out,                      \* standard output, one element per print
    fatal,                    \* why the process died ("none" while it has not)
    exit_status               \* the process's exit status (-1 while running)

vars == <<pc, remaining, index, cur, disk, result, num_fixed, image_size_before,
          image_before_optimizing, out, fatal, exit_status>>

----------------------------------------------------------------------------
(* Bounds of the model.                                                    *)

\* length of the directory traversal
MaxEntries == 3
\* bytes that follow the colour-type byte in a generated file
MaxTail == 2
\* length of a decoded pixel buffer
MaxPixLen == 1

----------------------------------------------------------------------------
(* Bytes and files.                                                        *)

Byte == 0 .. 255

EXPECTED_PNG_HEADER == <<137, 80, 78, 71, 13, 10, 26, 10>>

\* "IHDR".as_bytes()
ihdr_expected == <<73, 72, 68, 82>>

\* the sequence s with its i-th element replaced by b
Subst(s, i, b) == [s EXCEPT ![i] = b]

\* the first n elements of s (all of s when it is shorter)
Take(s, n) == SubSeq(s, 1, IF n < Len(s) THEN n ELSE Len(s))

RECURSIVE SeqsUpTo(_, _)
\* all sequences over S of length at most n
SeqsUpTo(S, n) ==
    IF n = 0 THEN {<<>>}
    ELSE LET shorter == SeqsUpTo(S, n - 1)
         IN  shorter \cup {Append(s, b) : s \in shorter, b \in S}

\* signatures: the right one, and every single-byte corruption by 0 or 255
Sigs ==
    {EXPECTED_PNG_HEADER}
        \cup {Subst(EXPECTED_PNG_HEADER, i, b) : i \in 1 .. 8, b \in {0, 255}}

\* chunk types: IHDR, its single-byte corruptions, "ihdr" and "IDAT"
Tags ==
    {ihdr_expected, <<105, 104, 100, 114>>, <<73, 68, 65, 84>>}
        \cup {Subst(ihdr_expected, i, 0) : i \in 1 .. 4}

\* big-endian 32-bit fields: 13, 0 and 2^32 - 1
U32s == {<<0, 0, 0, 13>>, <<0, 0, 0, 0>>, <<255, 255, 255, 255>>}

Depths == {8, 0, 255}

\* what follows the colour type: filter method, interlace method, chunks
Tails == SeqsUpTo({0, 3}, MaxTail)

MkFile(sig, len, tag, w, h, depth, ct, tail) ==
    sig \o len \o tag \o w \o h \o <<depth>> \o <<ct>> \o tail

\* every length, width, height, bit depth and colour type behind a valid
\* signature and tag
ColorFiles ==
    {MkFile(EXPECTED_PNG_HEADER, len, ihdr_expected, w, h, d, ct, <<0, 0>>) :
        len \in U32s, w \in U32s, h \in U32s, d \in Depths, ct \in Byte}

\* every signature and chunk type, with some colour types and every tail
StructFiles ==
    {MkFile(sig, len, tag, <<0, 0, 0, 1>>, <<0, 0, 0, 1>>, 8, ct, tail) :
        sig \in Sigs, len \in U32s, tag \in Tags, ct \in {0, 3, 9}, tail \in Tails}

\* every truncation of a file with some signature and some chunk type
TruncatedFiles ==
    {Take(MkFile(sig, <<0, 0, 0, 13>>, tag, <<0, 0, 0, 1>>, <<0, 0, 0, 1>>,
                 8, 3, <<0, 0>>), n) :
        sig \in Sigs, tag \in Tags, n \in 0 .. 28}

Files == ColorFiles \cup StructFiles \cup TruncatedFiles

----------------------------------------------------------------------------
(* parse_one.  An open file is [bytes, pos, reads]: its contents, the      *)
(* offset of the next read and the reads issued so far as <<offset, size>>.*)

PixelFormat ==
    {"Greyscale", "TrueColor", "IndexedColor", "GreyscaleWithAlpha",
     "TrueColorWithAlpha"}

\* a ParseResult and the state the file handle was left in
Outcome(tag, fmt, file) ==
    [tag |-> tag, fmt |-> fmt, pos |-> file.pos, reads |-> file.reads]

Valid(fmt, file) == Outcome("Valid", fmt, file)

Failure(tag, file) == Outcome(tag, "none", file)

\* File::open
Open(bytes) == [bytes |-> bytes, pos |-> 0, reads |-> <<>>]

\* Read::read_exact: n bytes or an error; an error leaves the handle at the
\* end of the file
read_exact(file, n) ==
    LET asked == Append(file.reads, <<file.pos, n>>)
    IN  IF file.pos + n <= Len(file.bytes)
        THEN [ok |-> TRUE,
              data |-> SubSeq(file.bytes, file.pos + 1, file.pos + n),
              file |-> [file EXCEPT !.pos = file.pos + n, !.reads = asked]]
        ELSE [ok |-> FALSE,
              data |-> <<>>,
              file |-> [file EXCEPT !.pos = Len(file.bytes), !.reads = asked]]

\* ReadBytesExt::read_u32::<BigEndian>; the value hi * 2^16 + lo is kept as
\* <<hi, lo>>, two 16-bit halves
read_u32(file) ==
    LET r == read_exact(file, 4)
    IN  [ok |-> r.ok,
         value |-> IF r.ok
                   THEN <<r.data[1] * 256 + r.data[2], r.data[3] * 256 + r.data[4]>>
                   ELSE <<0, 0>>,
         file |-> r.file]

\* ReadBytesExt::read_u8
read_u8(file) ==
    LET r == read_exact(file, 1)
    IN  [ok |-> r.ok, value |-> IF r.ok THEN r.data[1] ELSE 0, file |-> r.file]

\* pixel_format with the arm for colour type 6 forgotten and 1 taken for
\* greyscale
pixel_format_no_rgba(pixel_format_byte, file) ==
    CASE pixel_format_byte \in {0, 1} -> Valid("Greyscale", file)
      [] pixel_format_byte = 2 -> Valid("TrueColor", file)
      [] pixel_format_byte = 3 -> Valid("IndexedColor", file)
      [] pixel_format_byte = 4 -> Valid("GreyscaleWithAlpha", file)
      [] OTHER -> Failure("InvalidPixelFormat", file)

\* the match on pixel_format_byte
pixel_format(pixel_format_byte, file) ==
    CASE pixel_format_byte = 0 -> Valid("Greyscale", file)
      [] pixel_format_byte = 2 -> Valid("TrueColor", file)
      [] pixel_format_byte = 3 -> Valid("IndexedColor", file)
      [] pixel_format_byte = 4 -> Valid("GreyscaleWithAlpha", file)
      [] pixel_format_byte = 6 -> Valid("TrueColorWithAlpha", file)
      [] OTHER -> Failure("InvalidPixelFormat", file)

\* parse_fields with a failed read of the colour type reported as an
\* unknown pixel format
parse_fields_eof_as_format(file) ==
    LET width == read_u32(file)
        height == read_u32(width.file)
        depth == read_u8(height.file)
        color == read_u8(depth.file)
    IN  IF ~width.ok THEN Failure("ReadFail", width.file)
        ELSE IF ~height.ok THEN Failure("ReadFail", height.file)
        ELSE IF ~depth.ok THEN Failure("ReadFail", depth.file)
        ELSE IF ~color.ok THEN Failure("InvalidPixelFormat", color.file)
        ELSE pixel_format(color.value, color.file)

\* parse_fields that goes on to read the filter method and rejects a
\* non-zero one
parse_fields_reads_filter(file) ==
    LET width == read_u32(file)
        height == read_u32(width.file)
        depth == read_u8(height.file)
        color == read_u8(depth.file)
        filter == read_u8(color.file)
    IN  IF ~width.ok THEN Failure("ReadFail", width.file)
        ELSE IF ~height.ok THEN Failure("ReadFail", height.file)
        ELSE IF ~depth.ok THEN Failure("ReadFail", depth.file)
        ELSE IF ~color.ok THEN Failure("ReadFail", color.file)
        ELSE IF ~filter.ok THEN Failure("ReadFail", filter.file)
        ELSE IF filter.value # 0 THEN Failure("InvalidPixelFormat", filter.file)
        ELSE pixel_format(color.value, filter.file)

\* parse_one from the read of the image width on
parse_fields(file) ==
    LET width == read_u32(file)
        height == read_u32(width.file)
        depth == read_u8(height.file)
        color == read_u8(depth.file)
    IN  IF ~width.ok THEN Failure("ReadFail", width.file)
        ELSE IF ~height.ok THEN Failure("ReadFail", height.file)
        ELSE IF ~depth.ok THEN Failure("ReadFail", depth.file)
        ELSE IF ~color.ok THEN Failure("ReadFail", color.file)
        ELSE pixel_format(color.value, color.file)

\* parse_ihdr that rejects a chunk length of zero before it looks at the
\* chunk type
parse_ihdr_checks_size(file) ==
    LET size == read_u32(file)
        ihdr == read_exact(size.file, 4)
    IN  IF ~size.ok THEN Failure("ReadFail", size.file)
        ELSE IF size.value = <<0, 0>> THEN Failure("ReadFail", size.file)
        ELSE IF ~ihdr.ok THEN Failure("ReadFail", ihdr.file)
        ELSE IF ihdr.data # ihdr_expected THEN Failure("InvalidIhdr", ihdr.file)
        ELSE parse_fields(ihdr.file)

\* parse_one from the read of the chunk length on
parse_ihdr(file) ==
    LET size == read_u32(file)
        ihdr == read_exact(size.file, 4)
    IN  IF ~size.ok THEN Failure("ReadFail", size.file)
        ELSE IF ~ihdr.ok THEN Failure("ReadFail", ihdr.file)
        ELSE IF ihdr.data # ihdr_expected THEN Failure("InvalidIhdr", ihdr.file)
        ELSE parse_fields(ihdr.file)

\* parse_one that compares only the first four bytes of the signature
parse_one_half_signature(openable, bytes) ==
    IF ~openable THEN Failure("OpenFail", Open(<<>>))
    ELSE LET png_header == read_exact(Open(bytes), 8)
         IN  IF ~png_header.ok THEN Failure("ReadFail", png_header.file)
             ELSE IF SubSeq(png_header.data, 1, 4) # SubSeq(EXPECTED_PNG_HEADER, 1, 4)
                  THEN Failure("InvalidPngHeader", png_header.file)
                  ELSE parse_ihdr(png_header.file)

\* parse_one of a file that does (openable) or does not open
parse_one(openable, bytes) ==
    IF ~openable THEN Failure("OpenFail", Open(<<>>))
    ELSE LET png_header == read_exact(Open(bytes), 8)
         IN  IF ~png_header.ok THEN Failure("ReadFail", png_header.file)
             ELSE IF png_header.data # EXPECTED_PNG_HEADER
                  THEN Failure("InvalidPngHeader", png_header.file)
                  ELSE parse_ihdr(png_header.file)

----------------------------------------------------------------------------
(* The file system seen by one run.                                        *)

\* decoded pixel buffers (Vec<u8>): non-empty, bytes 0 or 255
Pixels == SeqsUpTo({0, 255}, MaxPixLen) \ {<<>>}

\* file sizes in bytes (fs::metadata(path).len())
Sizes == {1000, 2000}

\* Path::extension() of a name without one
NoExt == "<none>"

\* OsStr::new("png")
target_extension == "png"

\* Path::new(&args[1]); a path is the sequence of its components
scan_path == <<"scan">>

\* a well-formed 26-byte header with the given colour type, and two more bytes
Header(ct) ==
    MkFile(EXPECTED_PNG_HEADER, <<0, 0, 0, 13>>, ihdr_expected, <<0, 0, 0, 1>>,
           <<0, 0, 0, 1>>, 8, ct, <<0, 0>>)

\* contents of the .png files of the tree: every recognised colour type, an
\* unknown one, a bad signature, a bad chunk type and three truncations
WalkFiles ==
    {Header(ct) : ct \in {0, 2, 3, 4, 6, 9}}
        \cup {Subst(Header(3), 1, 0), Subst(Header(3), 13, 0)}
        \cup {Take(Header(3), n) : n \in {0, 12, 25}}

\* a file on disk: its bytes, what the image decoder makes of it, its size
OnDisk(bytes, pixels, size) == [bytes |-> bytes, pixels |-> pixels, size |-> size]

NoFile == OnDisk(<<>>, <<0>>, 1000)

\* external calls of fix_image that can fail on a file
Calls == {"metadata", "open", "save", "optimize", "reopen", "metadata_after"}

\* what the directory iterator can yield: is_file, extension, whether the
\* file opens, its contents, and the call of fix_image that fails on it
Entry(is_file, ext, openable, file, fails) ==
    [is_file |-> is_file, ext |-> ext, openable |-> openable, file |-> file,
     fails |-> fails]

Entries ==
    \* directories, one of them named like an image
    {Entry(FALSE, ext, TRUE, NoFile, "none") : ext \in {NoExt, "png"}}
        \* indexed images under other names
        \cup {Entry(TRUE, ext, TRUE, OnDisk(Header(3), <<0>>, 1000), "none") :
                ext \in {NoExt, "PNG", "jpg"}}
        \* a .png that does not open
        \cup {Entry(TRUE, "png", FALSE, OnDisk(Header(3), <<0>>, 1000), "none")}
        \* .png files that are not repaired
        \cup {Entry(TRUE, "png", TRUE, OnDisk(bytes, <<0>>, 1000), "none") :
                bytes \in WalkFiles \ {Header(3)}}
        \* indexed .png files
        \cup {Entry(TRUE, "png", TRUE, OnDisk(Header(3), pixels, size), fails) :
                pixels \in Pixels, size \in Sizes, fails \in Calls \cup {"none"}}

NoEntry ==
    [is_file |-> FALSE, ext |-> NoExt, openable |-> FALSE, file |-> NoFile,
     fails |-> "none", path |-> <<>>, rel_path |-> <<>>]

NoResult == [tag |-> "none", fmt |-> "none", pos |-> 0, reads |-> <<>>]

NoImage == <<>>

\* the i-th entry of the walk: the root itself, then what is below it
EntryPath(i) == IF i = 0 THEN scan_path ELSE scan_path \o <<"entry", i>>

\* strip_prefix that gives the path back as it is
strip_prefix_keeps_base(path, base) == path

\* Path::strip_prefix of a path that starts with base
strip_prefix(path, base) == SubSeq(path, Len(base) + 1, Len(path))

----------------------------------------------------------------------------
(* Output.  A printed item is [text, kind, path, a, b].                    *)

Line(text, kind, path, a, b) ==
    [text |-> text, kind |-> kind, path |-> path, a |-> a, b |-> b]

Text(text) == Line(text, "", <<>>, 0, 0)

\* println!("Error {:?}: {}", error_parse_result, rel_path.display())
ErrorLine(error_parse_result, rel_path) ==
    Line("Error", error_parse_result.tag, rel_path, 0, 0)

\* println!("{} is indexed!", rel_path.display())
IndexedLine(rel_path) == Line("is indexed!", "", rel_path, 0, 0)

\* x / y rounded to the nearest integer, for y > 0 and x >= 0
RoundDiv(x, y) == (2 * x + y) \div (2 * y)

\* println!("Size Change: [{:+}KB / {:3.0}%]", ...): the change in bytes
\* (printed divided by 1000) and the new size in percent of the old one
SizeChangeLine(before, after) ==
    Line("Size Change", "", <<>>, after - before, RoundDiv(after * 100, before))

\* println!("Fixed {} files.", num_fixed)
FixedLine(n) == Line("Fixed", "", <<>>, n, 0)

----------------------------------------------------------------------------
(* The process.                                                            *)

\* the walk has not started: the state both specifications start from
Fresh ==
    /\ index = 0
    /\ cur = NoEntry
    /\ disk = NoFile
    /\ result = NoResult
    /\ num_fixed = 0
    /\ image_size_before = 0
    /\ image_before_optimizing = NoImage
    /\ out = <<>>
    /\ fatal = "none"
    /\ exit_status = -1

Init ==
    /\ pc = "main"
    /\ remaining \in 0 .. MaxEntries
    /\ Fresh

\* the process ends: a return from main (0), a panic (101), exit(-1) (255)
Exit(status, why) ==
    /\ pc' = "exited"
    /\ exit_status' = status
    /\ fatal' = why

\* Result::expect / Option::expect on an Err: the thread panics with msg
Panic(msg) ==
    /\ Exit(101, msg)
    /\ UNCHANGED <<remaining, index, cur, disk, result, num_fixed,
                   image_size_before, image_before_optimizing, out>>

\* main up to the loop: the argument check and the "Scanning" line
Main ==
    /\ pc = "main"
    /\ \E args_len \in {1, 2} :
          IF args_len < 2
          THEN /\ out' = Append(out, Text("First argument must be path to folder to be processed."))
               /\ Exit(0, "none")
          ELSE /\ out' = Append(out, Line("Scanning", "", scan_path, 0, 0))
               /\ pc' = "loop"
               /\ UNCHANGED <<fatal, exit_status>>
    /\ UNCHANGED <<remaining, index, cur, disk, result, num_fixed,
                   image_size_before, image_before_optimizing>>

\* which arm of handle_one_file's matches a ParseResult takes
Arm(parse_result) ==
    IF parse_result.tag = "Valid"
    THEN IF parse_result.fmt = "IndexedColor" THEN "fix" ELSE "false"
    ELSE "error"

\* the increment made whatever handle_one_file returned
Counted_always(n, fixed) == n + 1

\* main's `if handle_one_file(..) { num_fixed += 1 }`
Counted(n, fixed) == IF fixed THEN n + 1 ELSE n

\* handle_one_file up to its call of fix_image, or to its return of false
\* and what main makes of it
handle_one_file(entry) ==
    LET parsed == parse_one(entry.openable, entry.file.bytes)
    IN  /\ result' = parsed
        /\ CASE Arm(parsed) = "fix" ->
                  /\ out' = Append(out, IndexedLine(entry.rel_path))
                  /\ pc' = "fix_image"
                  /\ num_fixed' = num_fixed
             [] Arm(parsed) = "false" ->
                  /\ out' = out
                  /\ pc' = "loop"
                  /\ num_fixed' = Counted(num_fixed, FALSE)
             [] OTHER ->
                  /\ out' = Append(out, ErrorLine(parsed, entry.rel_path))
                  /\ pc' = "loop"
                  /\ num_fixed' = Counted(num_fixed, FALSE)

\* IsTarget that takes "PNG" for "png"
IsTarget_any_case(entry) ==
    /\ entry.is_file
    /\ entry.ext # NoExt
    /\ entry.ext \in {target_extension, "PNG"}

\* whether main hands an entry to handle_one_file
IsTarget(entry) ==
    /\ entry.is_file
    /\ entry.ext # NoExt
    /\ entry.ext = target_extension

\* one iteration of main's loop, up to the call of fix_image if it makes one
LoopBody ==
    /\ pc = "loop"
    /\ remaining > 0
    /\ \E e \in Entries :
          LET path == EntryPath(index)
              entry == [is_file |-> e.is_file, ext |-> e.ext,
                        openable |-> e.openable, file |-> e.file,
                        fails |-> e.fails, path |-> path,
                        rel_path |-> strip_prefix(path, scan_path)]
          IN  \* a root that is a file is all there is to walk
              /\ (index = 0 /\ e.is_file) => remaining = 1
              /\ cur' = entry
              /\ disk' = e.file
              /\ IF IsTarget(entry)
                 THEN handle_one_file(entry)
                 ELSE /\ result' = NoResult
                      /\ out' = out
                      /\ pc' = "loop"
                      /\ num_fixed' = num_fixed
    /\ index' = index + 1
    /\ remaining' = remaining - 1
    /\ UNCHANGED <<image_size_before, image_before_optimizing, fatal,
                   exit_status>>

\* the directory iterator yields an error: entry.expect("File I/O Error?")
WalkError ==
    /\ pc = "loop"
    /\ remaining > 0
    /\ Panic("File I/O Error?")

\* the iterator is exhausted: the summary line, and main returns
LoopEnd ==
    /\ pc = "loop"
    /\ remaining = 0
    /\ out' = Append(out, FixedLine(num_fixed))
    /\ Exit(0, "none")
    /\ UNCHANGED <<remaining, index, cur, disk, result, num_fixed,
                   image_size_before, image_before_optimizing>>

----------------------------------------------------------------------------
(* fix_image, one action per call of a collaborator.                       *)

\* fs::metadata(path).expect(..).len(), and the "Converting" marker
FixMetadata ==
    /\ pc = "fix_image"
    /\ IF cur.fails = "metadata"
       THEN Panic("Can't get image size")
       ELSE /\ image_size_before' = disk.size
            /\ out' = Append(out, Text("Converting to RGB/RGBA..."))
            /\ pc' = "open"
            /\ UNCHANGED <<remaining, index, cur, disk, result, num_fixed,
                           image_before_optimizing, fatal, exit_status>>

\* image::open(path).expect(..)
FixOpen ==
    /\ pc = "open"
    /\ IF cur.fails = "open"
       THEN Panic("Failed to open image!")
       ELSE /\ image_before_optimizing' = disk.pixels
            /\ pc' = "save"
            /\ UNCHANGED <<remaining, index, cur, disk, result, num_fixed,
                           image_size_before, out, fatal, exit_status>>

\* what the encoder leaves at path: a direct-colour header (RGBA), and
\* pixels and a size that are the encoder's business
Saved(image) ==
    {OnDisk(Header(6), pixels, size) : pixels \in Pixels, size \in Sizes}

\* image_before_optimizing.save(path).expect(..), and the "Optimizing" marker
FixSave ==
    /\ pc = "save"
    /\ IF cur.fails = "save"
       THEN Panic("Failed to save image!")
       ELSE /\ disk' \in Saved(image_before_optimizing)
            /\ out' = Append(out, Text(" Optimizing..."))
            /\ pc' = "optimize"
            /\ UNCHANGED <<remaining, index, cur, result, num_fixed,
                           image_size_before, image_before_optimizing, fatal,
                           exit_status>>

\* what the optimizer leaves at path: the header is kept (no colour-type
\* reduction), pixels and size are the optimizer's business
Optimized(file) ==
    {OnDisk(file.bytes, pixels, size) : pixels \in Pixels, size \in Sizes}

\* FixOptimize that drops the optimizer's error instead of panicking
FixOptimize_ignores_error ==
    /\ pc = "optimize"
    /\ disk' \in IF cur.fails = "optimize" THEN {disk} ELSE Optimized(disk)
    /\ out' = Append(out, Text("Optimized."))
    /\ pc' = "verify"
    /\ UNCHANGED <<remaining, index, cur, result, num_fixed,
                   image_size_before, image_before_optimizing, fatal,
                   exit_status>>

\* oxipng::optimize(..).expect(..), and the "Optimized." marker
FixOptimize ==
    /\ pc = "optimize"
    /\ IF cur.fails = "optimize"
       THEN Panic("Optimize failed!")
       ELSE /\ disk' \in Optimized(disk)
            /\ out' = Append(out, Text("Optimized."))
            /\ pc' = "verify"
            /\ UNCHANGED <<remaining, index, cur, result, num_fixed,
                           image_size_before, image_before_optimizing, fatal,
                           exit_status>>

\* a comparison of the lengths of the buffers only
Identical_length_only(before, after) == Len(before) = Len(after)

\* the comparison of the two raw pixel buffers
Identical(before, after) == before = after

\* image::open(path).expect(..).raw_pixels() and the check that the images
\* are identical
FixVerify ==
    /\ pc = "verify"
    /\ IF cur.fails = "reopen"
       THEN Panic("Failed to open optimized image!")
       ELSE LET image_pixel_data_after_optimizing == disk.pixels
            IN  IF ~Identical(image_before_optimizing,
                              image_pixel_data_after_optimizing)
                THEN /\ out' = Append(out,
                            Text("ERROR: optimized image wasn't identical to original image"))
                     /\ Exit(255, "mismatch")
                     /\ UNCHANGED <<remaining, index, cur, disk, result,
                                    num_fixed, image_size_before,
                                    image_before_optimizing>>
                ELSE /\ pc' = "report"
                     /\ UNCHANGED <<remaining, index, cur, disk, result,
                                    num_fixed, image_size_before,
                                    image_before_optimizing, out, fatal,
                                    exit_status>>

\* the second fs::metadata, the size-change line, the return of fix_image
\* and of handle_one_file (true), and main's increment
FixReport ==
    /\ pc = "report"
    /\ IF cur.fails = "metadata_after"
       THEN Panic("Can't get image size")
       ELSE LET image_size_after == disk.size
            IN  /\ out' = Append(out,
                       SizeChangeLine(image_size_before, image_size_after))
                /\ num_fixed' = Counted(num_fixed, TRUE)
                /\ pc' = "loop"
                /\ UNCHANGED <<remaining, index, cur, disk, result,
                               image_size_before, image_before_optimizing,
                               fatal, exit_status>>

Next ==
    \/ Main
    \/ LoopBody
    \/ WalkError
    \/ LoopEnd
    \/ FixMetadata
    \/ FixOpen
    \/ FixSave
    \/ FixOptimize
    \/ FixVerify
    \/ FixReport

Spec == Init /\ [][Next]_vars

----------------------------------------------------------------------------
(* One call of parse_one.                                                  *)

\* the files parse_one is applied to: every file of Files, and files that
\* do not open
ParseInputs ==
    {Entry(TRUE, "png", TRUE, OnDisk(bytes, <<0>>, 1000), "none") : bytes \in Files}
        \cup {Entry(TRUE, "png", FALSE, OnDisk(bytes, <<0>>, 1000), "none") :
                bytes \in WalkFiles}

ParseInit ==
    /\ pc = "parse"
    /\ remaining = 0
    /\ index = 0
    /\ \E e \in ParseInputs :
          cur = [is_file |-> e.is_file, ext |-> e.ext, openable |-> e.openable,
                 file |-> e.file, fails |-> e.fails, path |-> scan_path,
                 rel_path |-> <<>>]
    /\ disk = cur.file
    /\ result = NoResult
    /\ num_fixed = 0
    /\ image_size_before = 0
    /\ image_before_optimizing = NoImage
    /\ out = <<>>
    /\ fatal = "none"
    /\ exit_status = -1

\* the call: the handle is opened, read and dropped
Classify ==
    /\ pc = "parse"
    /\ result' = parse_one(cur.openable, disk.bytes)
    /\ pc' = "parsed"
    /\ UNCHANGED <<remaining, index, cur, disk, num_fixed, image_size_before,
                   image_before_optimizing, out, fatal, exit_status>>

ParseNext == Classify

ParseSpec == ParseInit /\ [][ParseNext]_vars

----------------------------------------------------------------------------
(* Properties of parse_one, checked under ParseSpec.                       *)

\* parse_one has returned for a file that opened
Parsed == pc = "parsed" /\ cur.openable

\* the bytes of the file parse_one was given
Bytes == disk.bytes

HasSignature == Len(Bytes) >= 8 /\ SubSeq(Bytes, 1, 8) = EXPECTED_PNG_HEADER

HasIhdrTag == Len(Bytes) >= 16 /\ SubSeq(Bytes, 13, 16) = ihdr_expected

\* the ParseResult alone, without the state of the file handle
Returned(r) == <<r.tag, r.fmt>>

\* the reads of a complete parse: signature, length, chunk type, width,
\* height, bit depth, colour type
ReadOrder ==
    <<(<<0, 8>>), (<<8, 4>>), (<<12, 4>>), (<<16, 4>>), (<<20, 4>>),
      (<<24, 1>>), (<<25, 1>>)>>

\* C2: behind a valid signature and IHDR tag, the colour-type byte 0, 2, 3,
\* 4, 6 is classified Greyscale, TrueColor, IndexedColor, GreyscaleWithAlpha,
\* TrueColorWithAlpha, and every other byte gives InvalidPixelFormat,
\* whatever the length, width, height and bit depth are.
C2_ColorTypeMapping ==
    (Parsed /\ HasSignature /\ HasIhdrTag /\ Len(Bytes) >= 26) =>
        LET ct == Bytes[26]
        IN  /\ ct = 0 => Returned(result) = <<"Valid", "Greyscale">>
            /\ ct = 2 => Returned(result) = <<"Valid", "TrueColor">>
            /\ ct = 3 => Returned(result) = <<"Valid", "IndexedColor">>
            /\ ct = 4 => Returned(result) = <<"Valid", "GreyscaleWithAlpha">>
            /\ ct = 6 => Returned(result) = <<"Valid", "TrueColorWithAlpha">>
            /\ ct \notin {0, 2, 3, 4, 6} =>
                   Returned(result) = <<"InvalidPixelFormat", "none">>

\* colour type 6 behind a length of 2^32 - 1, a zero width and bit depth 255
C2_Witness ==
    /\ Parsed /\ HasSignature /\ HasIhdrTag /\ Len(Bytes) >= 26
    /\ Bytes[26] = 6
    /\ SubSeq(Bytes, 9, 12) = <<255, 255, 255, 255>>
    /\ SubSeq(Bytes, 17, 20) = <<0, 0, 0, 0>>
    /\ Bytes[25] = 255
    /\ Returned(result) = <<"Valid", "TrueColorWithAlpha">>

\* the outcome parse_one has for a file shorter than 26 bytes
ShortOutcome ==
    IF Len(Bytes) >= 8 /\ ~HasSignature THEN "InvalidPngHeader"
    ELSE IF Len(Bytes) >= 16 /\ ~HasIhdrTag THEN "InvalidIhdr"
    ELSE "ReadFail"

\* C3 as stated: every file that opens and is shorter than 26 bytes gives
\* ReadFail.
C3_AnyShortFileReadFail ==
    (Parsed /\ Len(Bytes) < 26) => result.tag = "ReadFail"

\* C3 as amended: a file shorter than 26 bytes gives ReadFail unless the
\* bytes it has already show a mismatch: InvalidPngHeader when it has 8 bytes
\* and they are not the signature, InvalidIhdr when it has 16 bytes, the
\* signature, and a chunk type other than IHDR.  It is never classified.
C3_ShortFileOutcome ==
    (Parsed /\ Len(Bytes) < 26) => Returned(result) = <<ShortOutcome, "none">>

\* a file cut right before the colour-type byte
C3_Witness ==
    /\ Parsed /\ Len(Bytes) = 25 /\ HasSignature /\ HasIhdrTag
    /\ result.tag = "ReadFail"

\* C4: a file whose first 8 bytes are not the signature gives
\* InvalidPngHeader, whatever follows or is missing, and nothing after the
\* signature is read.
C4_InvalidSignature ==
    (Parsed /\ Len(Bytes) >= 8 /\ ~HasSignature) =>
        /\ Returned(result) = <<"InvalidPngHeader", "none">>
        /\ result.pos = 8
        /\ result.reads = <<(<<0, 8>>)>>

\* the last byte of the signature is wrong and a well-formed IHDR follows
C4_Witness ==
    /\ Parsed /\ Len(Bytes) >= 26
    /\ SubSeq(Bytes, 1, 7) = SubSeq(EXPECTED_PNG_HEADER, 1, 7)
    /\ Bytes[8] # EXPECTED_PNG_HEADER[8]
    /\ HasIhdrTag
    /\ Bytes[26] = 3
    /\ result.tag = "InvalidPngHeader"

\* C5: a valid signature, any 4-byte length and a chunk type other than
\* "IHDR" give InvalidIhdr, and width, height, bit depth and colour type are
\* not read.
C5_InvalidIhdrTag ==
    (Parsed /\ HasSignature /\ Len(Bytes) >= 16 /\ ~HasIhdrTag) =>
        /\ Returned(result) = <<"InvalidIhdr", "none">>
        /\ result.pos = 16
        /\ result.reads = SubSeq(ReadOrder, 1, 3)

\* chunk type "IDAT" behind a length of zero
C5_Witness ==
    /\ Parsed /\ HasSignature /\ Len(Bytes) >= 26
    /\ SubSeq(Bytes, 9, 12) = <<0, 0, 0, 0>>
    /\ SubSeq(Bytes, 13, 16) = <<73, 68, 65, 84>>
    /\ result.tag = "InvalidIhdr"

\* C10: the reads are an initial part of signature(8), length(4), type(4),
\* width(4), height(4), bit depth(1), colour type(1), each where the one
\* before ended; at most 26 bytes are consumed; and a file with the same
\* first 26 bytes and any other continuation gives the same outcome.
C10_First26Bytes ==
    Parsed =>
        /\ Len(result.reads) <= Len(ReadOrder)
        /\ result.reads = SubSeq(ReadOrder, 1, Len(result.reads))
        /\ result.pos <= 26
        /\ Len(Bytes) >= 26 =>
               \A tail \in Tails :
                   Returned(parse_one(TRUE, Take(Bytes, 26) \o tail))
                       = Returned(result)

\* an indexed file whose filter and interlace bytes are 3
C10_Witness ==
    /\ Parsed /\ Len(Bytes) = 28
    /\ Bytes[27] = 3 /\ Bytes[28] = 3
    /\ Returned(result) = <<"Valid", "IndexedColor">>
    /\ result.pos = 26
    /\ result.reads = ReadOrder

----------------------------------------------------------------------------
(* Properties of a run, checked under Spec.                                *)

\* the last item printed is of the given kind
LastPrinted(o, text) == Len(o) > 0 /\ o[Len(o)].text = text

\* how many items of the given kind were printed
Printed(o, text) == Cardinality({i \in 1 .. Len(o) : o[i].text = text})

\* this step is an iteration of main's loop; cur' is the entry it yields
Iteration == pc = "loop" /\ index' = index + 1

\* the entry is a regular file with extension exactly "png"
IsPng(entry) == entry.is_file /\ entry.ext = "png"

\* what classification makes of an entry
Class(entry) == Returned(parse_one(entry.openable, entry.file.bytes))

\* the process is gone with a non-zero status
Aborted(status) == status \notin {-1, 0}

\* C1: a repair gets to its size-change line and is counted only if the
\* buffer decoded from the file before it was overwritten equals the one
\* decoded from the optimized file; if they differ the process exits with a
\* non-zero status and the file is not counted.
C1_Lossless ==
    [][/\ (num_fixed' # num_fixed \/ (out' # out /\ LastPrinted(out', "Size Change")))
            => cur.file.pixels = disk.pixels
       /\ (pc = "verify" /\ cur.fails # "reopen" /\ cur.file.pixels # disk.pixels)
            => /\ pc' = "exited"
               /\ Aborted(exit_status')
               /\ num_fixed' = num_fixed
               /\ ~LastPrinted(out', "Size Change")]_vars

\* a repair that was counted: the file was overwritten and decodes as before
C1_Witness ==
    /\ pc = "loop"
    /\ num_fixed = 1
    /\ LastPrinted(out, "Size Change")
    /\ disk.bytes # cur.file.bytes
    /\ disk.pixels = cur.file.pixels
    /\ disk.pixels = <<255>>

\* C6: an iteration calls fix_image exactly when the entry is a regular
\* file with extension "png" classified Valid(IndexedColor), fix_image is
\* entered from nowhere else, and for any other Valid classification the
\* iteration prints nothing and leaves the counter and the file alone.
C6_RepairOnlyIndexed ==
    [][/\ Iteration =>
            /\ pc' = "fix_image"
                  <=> (IsPng(cur') /\ Class(cur') = <<"Valid", "IndexedColor">>)
            /\ (IsPng(cur') /\ Class(cur')[1] = "Valid"
                    /\ Class(cur')[2] # "IndexedColor")
                  => /\ out' = out
                     /\ num_fixed' = num_fixed
                     /\ disk' = cur'.file
                     /\ pc' = "loop"
       /\ (pc' = "fix_image" /\ pc # "fix_image") => Iteration]_vars

\* a direct-colour .png went through the loop and nothing happened
C6_Witness ==
    /\ pc = "loop"
    /\ index = 2
    /\ IsPng(cur)
    /\ Returned(result) = <<"Valid", "TrueColorWithAlpha">>
    /\ Len(out) = 1
    /\ num_fixed = 0
    /\ disk = cur.file

FailureTags ==
    {"OpenFail", "ReadFail", "InvalidPngHeader", "InvalidIhdr", "InvalidPixelFormat"}

FatalCase ==
    \/ pc = "open" /\ cur.fails = "open"
    \/ pc = "save" /\ cur.fails = "save"
    \/ pc = "optimize" /\ cur.fails = "optimize"
    \/ pc = "verify" /\ cur.fails = "reopen"
    \/ pc = "verify" /\ cur.fails # "reopen" /\ disk.pixels # image_before_optimizing

\* C8: a decode, encode or optimizer failure or a pixel mismatch ends the
\* process with a non-zero status at that step: the counter is not
\* incremented, no summary line is printed, and no step follows, so the
\* failed step is not retried and no later entry is looked at.
C8_FatalStopsRun ==
    [][/\ FatalCase =>
            /\ pc' = "exited"
            /\ Aborted(exit_status')
            /\ num_fixed' = num_fixed
            /\ remaining' = remaining /\ index' = index
            /\ Printed(out', "Fixed") = 0
       /\ pc # "exited"]_vars

\* the optimizer failed on the first of two files
C8_Witness ==
    /\ pc = "exited"
    /\ fatal = "Optimize failed!"
    /\ exit_status = 101
    /\ remaining > 0
    /\ num_fixed = 0

\* C9: the counter is 0 before the walk; it changes only by +1, in the step
\* in which the repair of a regular "png" file classified IndexedColor
\* returns; it always equals the number of size-change lines printed; and
\* the summary line of a normal completion shows it, when every repair that
\* was started has been completed.
C9_FixedCount ==
    /\ [](pc = "main" => num_fixed = 0)
    /\ [](num_fixed = Printed(out, "Size Change"))
    /\ [][num_fixed' # num_fixed =>
            /\ num_fixed' = num_fixed + 1
            /\ pc = "report" /\ pc' = "loop"
            /\ IsPng(cur)
            /\ Class(cur) = <<"Valid", "IndexedColor">>
            /\ LastPrinted(out', "Size Change")]_vars
    /\ [](LastPrinted(out, "Fixed") =>
            /\ out[Len(out)].a = num_fixed
            /\ num_fixed = Printed(out, "is indexed!")
            /\ pc = "exited" /\ exit_status = 0)

\* three entries, one of them repaired, and the summary says 1
C9_Witness ==
    /\ pc = "exited"
    /\ index = 3
    /\ LastPrinted(out, "Fixed")
    /\ out[Len(out)].a = 1
    /\ Printed(out, "Error") = 1

====
